---- MODULE Spec2Model ----
(***************************************************************************)
(* A model of the typetris simulation engine (src/src/game): Block,        *)
(* BoundingBox, Board, Timer and Game, translated operation by operation.  *)
(*                                                                         *)
(* Conventions.                                                            *)
(*  - A char is a one-character string; a text is a sequence of chars.     *)
(*  - Option<T> is a sequence: <<>> is None, <<v>> is Some(v).             *)
(*  - u8 arithmetic is written out with its width (U8 = 2^8).              *)
(*  - f64 time values are integers (the model only uses whole time units). *)
(*  - board.rs still reads `block.position` and `block.width()`; they are  *)
(*    the origin and the width of the block's bounding box (position,      *)
(*    width below), and a write to `position.x` moves the whole block.     *)
(***************************************************************************)
EXTENDS Integers, Sequences, FiniteSets, TLC

VARIABLES game, last

vars == <<game, last>>

(***************************************************************************)
(* Bounds of the model and the input sets the events are drawn from.       *)
(***************************************************************************)
\* most blocks a board may hold in Spec (a Tick that would spawn one more is not taken)
MaxBlocks == 2
\* most blocks of a board drawn as input in SpecBoard
MaxInit == 2

Widths == {2}
Heights == {3}
\* the boards drawn as input in SpecBoard
BoardWidths == {3}
BoardHeights == {3}
FallIntervals == {2}
SpawnIntervals == {3}
DriftIntervals == {1, 2}
Deltas == {1, 2}
\* the dictionary (english.rs is a collaborator): non-empty ASCII words
Words == {<<"a">>, <<"a", "b">>}
\* the characters the keyboard sends
TypeChars == {"a", "b", "1"}

(***************************************************************************)
(* Characters and integers                                                 *)
(***************************************************************************)
U8 == 256

AsciiLetters ==
    {"a","b","c","d","e","f","g","h","i","j","k","l","m","n","o","p","q","r","s","t","u","v","w","x","y","z",
     "A","B","C","D","E","F","G","H","I","J","K","L","M","N","O","P","Q","R","S","T","U","V","W","X","Y","Z"}

AsciiOther == {"'", " ", ".", "%", "0", "1"}

is_ascii_alphabetic(ch) == ch \in AsciiLetters

\* str::is_ascii: every char of the text is ASCII
is_ascii(text) == \A i \in 1..Len(text) : text[i] \in AsciiLetters \cup AsciiOther

\* `other as u8` for an i8: the two's complement reinterpretation
as_u8(other) == IF other < 0 THEN other + U8 ELSE other

saturating_sub(a, b) == IF a >= b THEN a - b ELSE 0

\* impl MixAdd<i8> for u8
mix_add(self, other) ==
    IF other < 0
    THEN saturating_sub(self, as_u8(other))
    ELSE (self + as_u8(other)) % U8

(***************************************************************************)
(* BoardPosition and BoundingBox                                           *)
(***************************************************************************)
BoardPosition_new(px, py) == [x |-> px, y |-> py]

\* Vector2D<u8>::mix_add(Vector2D<i8>), lifted to BoardPosition
position_mix_add(p, offset) ==
    [x |-> mix_add(p.x, offset.x), y |-> mix_add(p.y, offset.y)]

\* Ord for BoardPosition: y descending, then x ascending
\* (-1 Less, 0 Equal, 1 Greater)
BoardPosition_cmp(self, other) ==
    IF other.y < self.y THEN -1
    ELSE IF other.y > self.y THEN 1
    ELSE IF self.x < other.x THEN -1
    ELSE IF self.x > other.x THEN 1
    ELSE 0

BoundingBox_new(bx, by, w, h) == [x |-> bx, y |-> by, width |-> w, height |-> h]

BoundingBox_shift(bb, offset) ==
    [bb EXCEPT !.x = mix_add(bb.x, offset.x), !.y = mix_add(bb.y, offset.y)]

\* intersect that takes boxes whose edges touch to intersect
BoundingBox_intersect_closed(self, other) ==
    ~ (\/ (self.x + self.width) % U8 < other.x
       \/ (other.x + other.width) % U8 < self.x
       \/ (self.y + self.height) % U8 < other.y
       \/ (other.y + other.height) % U8 < self.y)

BoundingBox_intersect(self, other) ==
    ~ (\/ (self.x + self.width) % U8 <= other.x
       \/ (other.x + other.width) % U8 <= self.x
       \/ (self.y + self.height) % U8 <= other.y
       \/ (other.y + other.height) % U8 <= self.y)

(***************************************************************************)
(* Block                                                                   *)
(***************************************************************************)
Settled == "Settled"
Falling == "Falling"
Interactable == "Interactable"
BlockStates == {Settled, Falling, Interactable}

\* derive(PartialOrd, Ord) on block::State: Settled < Falling < Interactable
State_ord(s) == IF s = Settled THEN 0 ELSE IF s = Falling THEN 1 ELSE 2

BlockCell_new_unchecked(assigned_char, pos) ==
    [assigned_char |-> assigned_char, input_char |-> <<>>, position |-> pos]

BlockCell_is_correct(cell) ==
    IF cell.input_char = <<>> THEN FALSE ELSE cell.input_char[1] = cell.assigned_char

\* Block::new_line, the Some(..) case (the text is ASCII)
new_line_block(assigned_text, state, bx, by) ==
    [state |-> state,
     cells |-> [i \in 1..Len(assigned_text) |->
                   BlockCell_new_unchecked(assigned_text[i],
                                           BoardPosition_new((bx + (i - 1)) % U8, by))],
     bounding_box |-> BoundingBox_new(bx, by, Len(assigned_text) % U8, 1)]

\* Block::new_line: Option<Block>
new_line(assigned_text, state, bx, by) ==
    IF is_ascii(assigned_text)
    THEN <<new_line_block(assigned_text, state, bx, by)>>
    ELSE <<>>

\* the (word, x) pairs Block::random can draw on a board of this width
RandomDraws(board_width) ==
    {d \in Words \X (0..board_width) :
        /\ Len(d[1]) <= board_width
        /\ d[2] <= board_width - Len(d[1])}

\* Block::random with its two random draws made explicit
Block_random(board_width, draw) ==
    new_line(draw[1], Interactable, draw[2], 0)[1]

block_x(b) == b.bounding_box.x
block_y(b) == b.bounding_box.y

\* the stale accessors board.rs uses
position(b) == BoardPosition_new(b.bounding_box.x, b.bounding_box.y)
width(b) == b.bounding_box.width

is_correct(b) == \A i \in 1..Len(b.cells) : BlockCell_is_correct(b.cells[i])

is_settled(b) == b.state = Settled
is_interactable(b) == b.state = Interactable
is_falling(b) == b.state = Falling

\* is_movable without the is_correct test
is_movable_untyped(b) == is_interactable(b)

is_movable(b) == is_interactable(b) /\ is_correct(b)

\* the cells without a typed character / with one
EmptyCells(b) == {i \in 1..Len(b.cells) : b.cells[i].input_char = <<>>}
FilledCells(b) == {i \in 1..Len(b.cells) : b.cells[i].input_char # <<>>}

\* the element of a one-element set
The(S) == CHOOSE x \in S : TRUE

Min(S) == CHOOSE m \in S : \A n \in S : m <= n
Max(S) == CHOOSE m \in S : \A n \in S : m >= n

\* add_char that does not look at the state of the block
add_char_any_state(b, ch) ==
    IF is_ascii_alphabetic(ch) /\ EmptyCells(b) # {}
    THEN [block |-> [b EXCEPT !.cells[Min(EmptyCells(b))].input_char = <<ch>>], ret |-> TRUE]
    ELSE [block |-> b, ret |-> FALSE]

\* add_char that fills the last empty cell
add_char_last_empty(b, ch) ==
    IF is_ascii_alphabetic(ch) /\ is_interactable(b) /\ EmptyCells(b) # {}
    THEN [block |-> [b EXCEPT !.cells[Max(EmptyCells(b))].input_char = <<ch>>], ret |-> TRUE]
    ELSE [block |-> b, ret |-> FALSE]

\* Block::add_char: [block, ret]
add_char(b, ch) ==
    IF is_ascii_alphabetic(ch) /\ is_interactable(b)
    THEN IF EmptyCells(b) # {}
         THEN [block |-> [b EXCEPT !.cells[Min(EmptyCells(b))].input_char = <<ch>>],
               ret |-> TRUE]
         ELSE [block |-> b, ret |-> FALSE]
    ELSE [block |-> b, ret |-> FALSE]

\* delete_char that clears the first filled cell
delete_char_first(b) ==
    IF is_interactable(b) /\ FilledCells(b) # {}
    THEN [block |-> [b EXCEPT !.cells[Min(FilledCells(b))].input_char = <<>>], ret |-> TRUE]
    ELSE [block |-> b, ret |-> FALSE]

\* Block::delete_char: [block, ret]
delete_char(b) ==
    IF is_interactable(b)
    THEN IF FilledCells(b) # {}
         THEN [block |-> [b EXCEPT !.cells[Max(FilledCells(b))].input_char = <<>>],
               ret |-> TRUE]
         ELSE [block |-> b, ret |-> FALSE]
    ELSE [block |-> b, ret |-> FALSE]

\* a shift that moves the bounding box and leaves the cells where they are
shift_box_only(b, offset) ==
    [b EXCEPT !.bounding_box = BoundingBox_shift(b.bounding_box, offset)]

\* Block::shift
shift(b, offset) ==
    [b EXCEPT !.bounding_box = BoundingBox_shift(b.bounding_box, offset),
              !.cells = [i \in 1..Len(b.cells) |->
                            [b.cells[i] EXCEPT !.position =
                                position_mix_add(b.cells[i].position, offset)]]]

\* intersect that compares the first cells of the two blocks only
intersect_first_cells(self, other) ==
    /\ BoundingBox_intersect(self.bounding_box, other.bounding_box)
    /\ self.cells[1].position = other.cells[1].position

\* Block::intersect
intersect(self, other) ==
    /\ BoundingBox_intersect(self.bounding_box, other.bounding_box)
    /\ \E i \in 1..Len(self.cells) : \E j \in 1..Len(other.cells) :
          self.cells[i].position = other.cells[j].position

(***************************************************************************)
(* Board                                                                   *)
(***************************************************************************)
\* Board::new with the draw of Block::random made explicit
Board_new(board_width, board_height, starts_with_one, draw) ==
    [blocks |-> IF starts_with_one THEN <<Block_random(board_width, draw)>> ELSE <<>>,
     width |-> board_width,
     height |-> board_height]

\* the comparator of Board::sort: state, then position
Block_cmp(a, b) ==
    IF State_ord(a.state) < State_ord(b.state) THEN -1
    ELSE IF State_ord(a.state) > State_ord(b.state) THEN 1
    ELSE BoardPosition_cmp(position(a), position(b))

\* the place of blocks[i] after a stable sort: behind every block that compares
\* less, and behind every earlier block that compares equal
sort_rank(blocks, i) ==
    1 + Cardinality({j \in 1..Len(blocks) :
                        \/ Block_cmp(blocks[j], blocks[i]) < 0
                        \/ Block_cmp(blocks[j], blocks[i]) = 0 /\ j < i})

\* a sequence of blocks after a stable sort with Block_cmp
sorted_blocks(blocks) ==
    [k \in 1..Len(blocks) |->
        blocks[CHOOSE i \in 1..Len(blocks) : sort_rank(blocks, i) = k]]

\* Board::sort (slice::sort_by is stable)
sort(board) == [board EXCEPT !.blocks = sorted_blocks(board.blocks)]

\* chunk_by_mut(|a, b| a.position.y == b.position.y): the chunk starting at s ends at
chunk_end(blocks, s) ==
    Min({i \in (s + 1)..(Len(blocks) + 1) :
            \/ i = Len(blocks) + 1
            \/ position(blocks[i - 1]).y # position(blocks[i]).y}) - 1

\* the windows(2) scan and the test of the last block of the chunk s..e
chunk_filled(blocks, s, e, board_width) ==
    /\ \A i \in s..(e - 1) :
          (position(blocks[i]).x + width(blocks[i])) % U8 = position(blocks[i + 1]).x
    /\ (position(blocks[e]).x + width(blocks[e])) % U8 = board_width

\* the loop over the chunks of clear_completed: the rows to remove, in push order
RECURSIVE clear_scan(_, _, _, _)
clear_scan(blocks, s, board_width, removals) ==
    IF s > Len(blocks) THEN removals
    ELSE IF ~ is_settled(blocks[s]) THEN removals
    ELSE IF position(blocks[s]).x # 0
         THEN clear_scan(blocks, chunk_end(blocks, s) + 1, board_width, removals)
    ELSE IF chunk_filled(blocks, s, chunk_end(blocks, s), board_width)
         THEN clear_scan(blocks, chunk_end(blocks, s) + 1, board_width,
                         Append(removals, position(blocks[s]).y))
    ELSE clear_scan(blocks, chunk_end(blocks, s) + 1, board_width, removals)

SeqToSet(s) == {s[i] : i \in 1..Len(s)}

\* the closure of extract_if: TRUE when the block is extracted
clear_extracts(b, removals) == position(b).y \in SeqToSet(removals)

\* extract_if making every Settled block it leaves Falling
clear_keeps_none_settled(b, max_y) ==
    IF is_settled(b) THEN [b EXCEPT !.state = Falling] ELSE b

\* what extract_if leaves of a block it does not extract
clear_keeps(b, max_y) ==
    IF is_settled(b) /\ position(b).y < max_y THEN [b EXCEPT !.state = Falling] ELSE b

RECURSIVE clear_rest(_, _, _)
clear_rest(blocks, removals, max_y) ==
    IF blocks = <<>> THEN <<>>
    ELSE IF clear_extracts(Head(blocks), removals)
         THEN clear_rest(Tail(blocks), removals, max_y)
    ELSE <<clear_keeps(Head(blocks), max_y)>> \o clear_rest(Tail(blocks), removals, max_y)

RECURSIVE clear_removed(_, _)
clear_removed(blocks, removals) ==
    IF blocks = <<>> THEN <<>>
    ELSE IF clear_extracts(Head(blocks), removals)
         THEN <<Head(blocks)>> \o clear_removed(Tail(blocks), removals)
    ELSE clear_removed(Tail(blocks), removals)

\* the extract_if step of clear_completed on the sorted board: [board, removed]
clear_extract(board, removals) ==
    IF removals # <<>>
    THEN [board |-> [board EXCEPT !.blocks = clear_rest(board.blocks, removals, removals[1])],
          removed |-> clear_removed(board.blocks, removals)]
    ELSE [board |-> board, removed |-> <<>>]

\* Board::clear_completed: [board, removed]
clear_completed(board) ==
    The({The({clear_extract(sorted, removals) :
                removals \in {clear_scan(sorted.blocks, 1, sorted.width, <<>>)}}) :
            sorted \in {sort(board)}})

\* fall_skips leaving the Falling blocks alone as well
fall_skips_falling(b, include_interactable) ==
    is_settled(b) \/ is_falling(b) \/ (~ include_interactable /\ is_interactable(b))

\* fall_skips leaving only the Interactable blocks alone
fall_skips_no_settled(b, include_interactable) ==
    ~ include_interactable /\ is_interactable(b)

\* the blocks fall_tick leaves alone
fall_skips(b, include_interactable) ==
    is_settled(b) \/ (~ include_interactable /\ is_interactable(b))

\* the collision test of fall_tick: block i against every block of the board
fall_collides(blocks, i) ==
    \E j \in 1..Len(blocks) : intersect(blocks[i], blocks[j])

\* a row test that never ends the game
fall_never_ends_game(b) == FALSE

\* the row test that ends the game
fall_ends_game(b) == block_y(b) = 0

\* block.shift(Vector2D::new(0, 1)) on blocks[i]
fall_shift(blocks, i) == [blocks EXCEPT ![i] = shift(blocks[i], [x |-> 0, y |-> 1])]

\* block.shift(Vector2D::new(0, -1)) and block.state = Settled on blocks[i]
fall_settle(blocks, i) ==
    [blocks EXCEPT ![i] = [shift(blocks[i], [x |-> 0, y |-> -1]) EXCEPT !.state = Settled]]

\* the loop of fall_tick from index i on: [blocks, msg]
RECURSIVE fall_loop(_, _, _, _, _)
RECURSIVE fall_settled(_, _, _, _)
RECURSIVE fall_shifted(_, _, _, _, _)

fall_loop(blocks, i, include_interactable, newly_settled, has_update) ==
    IF i > Len(blocks)
    THEN [blocks |-> blocks,
          msg |-> IF newly_settled THEN "BlocksSettled"
                  ELSE IF has_update THEN "Updated" ELSE "None"]
    ELSE IF fall_skips(blocks[i], include_interactable)
    THEN fall_loop(blocks, i + 1, include_interactable, newly_settled, has_update)
    ELSE The({fall_shifted(shifted, i, include_interactable, newly_settled, has_update) :
                shifted \in {fall_shift(blocks, i)}})

\* the rest of the loop body once blocks[i] is shifted down
fall_shifted(blocks, i, include_interactable, newly_settled, has_update) ==
    IF fall_collides(blocks, i)
    THEN The({fall_settled(settled, i, include_interactable, has_update) :
                settled \in {fall_settle(blocks, i)}})
    ELSE fall_loop(blocks, i + 1, include_interactable, newly_settled, TRUE)

\* the rest of the loop body once blocks[i] is shifted back and Settled
fall_settled(blocks, i, include_interactable, has_update) ==
    IF fall_ends_game(blocks[i])
    THEN [blocks |-> blocks, msg |-> "GameOver"]
    ELSE fall_loop(blocks, i + 1, include_interactable, TRUE, has_update)

\* Board::fall_tick: [board, msg], msg "None" for Option::None
fall_tick(board, include_interactable) ==
    The({[board |-> [board EXCEPT !.blocks = r.blocks], msg |-> r.msg] :
            r \in {fall_loop(board.blocks, 1, include_interactable, FALSE, FALSE)}})

InteractableIndices(board) ==
    {i \in 1..Len(board.blocks) : is_interactable(board.blocks[i])}

\* Board::get_focused_index: Option<usize> (indices from 1)
get_focused_index(board) ==
    IF InteractableIndices(board) = {} THEN <<>> ELSE <<Min(InteractableIndices(board))>>

\* Board::get_focused
get_focused(board) ==
    IF get_focused_index(board) = <<>> THEN <<>>
    ELSE <<board.blocks[get_focused_index(board)[1]]>>

\* Board::spawn_block
spawn_block(board, draw) ==
    [board EXCEPT !.blocks = Append(board.blocks, Block_random(board.width, draw))]

\* Board::push_block
push_block(board, b) == [board EXCEPT !.blocks = Append(board.blocks, b)]

\* focus_next that settles the block it releases
focus_next_settling(board) ==
    IF get_focused_index(board) # <<>>
    THEN [board |-> [board EXCEPT !.blocks[get_focused_index(board)[1]].state = Settled],
          ret |-> TRUE]
    ELSE [board |-> board, ret |-> FALSE]

\* focus_next that releases the last Interactable block
focus_next_last(board) ==
    IF InteractableIndices(board) # {}
    THEN [board |-> [board EXCEPT !.blocks[Max(InteractableIndices(board))].state = Falling],
          ret |-> TRUE]
    ELSE [board |-> board, ret |-> FALSE]

\* Board::focus_next: [board, ret]
focus_next(board) ==
    IF get_focused_index(board) # <<>>
    THEN [board |-> [board EXCEPT !.blocks[get_focused_index(board)[1]].state = Falling],
          ret |-> TRUE]
    ELSE [board |-> board, ret |-> FALSE]

\* take_while(|b| b.is_settled()): the indices of the leading run of Settled blocks
LeadingSettled(blocks) ==
    {i \in 1..Len(blocks) : \A j \in 1..i : is_settled(blocks[j])}

\* the scan of left() finding nothing
left_unblocked(blocks, fx, fy) == FALSE

\* the scan of left(): a Settled block of the leading run ends where the focus begins
left_blocked(blocks, fx, fy) ==
    \E i \in LeadingSettled(blocks) :
        /\ position(blocks[i]).y = fy
        /\ (position(blocks[i]).x + width(blocks[i])) % U8 = fx

\* the scan of right() finding nothing
right_unblocked(blocks, fx, fy) == FALSE

\* the scan of right(): a Settled block of the leading run begins where the focus ends
right_blocked(blocks, fx, fy) ==
    \E i \in LeadingSettled(blocks) :
        /\ position(blocks[i]).y = fy
        /\ position(blocks[i]).x = fx

\* `position.x -= 1` and `position.x += 1` on a block: the block's origin and,
\* with it, every cell move by d (u8 arithmetic, no saturation)
position_x_add(b, d) ==
    [b EXCEPT !.bounding_box.x = (b.bounding_box.x + d) % U8,
              !.cells = [i \in 1..Len(b.cells) |->
                            [b.cells[i] EXCEPT !.position.x =
                                (b.cells[i].position.x + d) % U8]]]

\* Board::left past the get_focused_index test: [board, ret]
left_focus(board, focus_index, focus) ==
    IF ~ is_movable(focus) THEN [board |-> board, ret |-> FALSE]
    ELSE IF position(focus).x = 0 THEN [board |-> board, ret |-> FALSE]
    ELSE IF left_blocked(board.blocks, position(focus).x, position(focus).y)
         THEN [board |-> board, ret |-> FALSE]
    ELSE [board |-> [board EXCEPT !.blocks[focus_index] = position_x_add(focus, -1)],
          ret |-> TRUE]

\* Board::left: [board, ret]
left(board) ==
    IF get_focused_index(board) = <<>> THEN [board |-> board, ret |-> FALSE]
    ELSE The({left_focus(board, i, board.blocks[i]) : i \in {get_focused_index(board)[1]}})

\* Board::right past the get_focused_index test: [board, ret]
right_focus(board, focus_index, focus) ==
    IF ~ is_movable(focus) THEN [board |-> board, ret |-> FALSE]
    ELSE IF (position(focus).x + width(focus)) % U8 = board.width
         THEN [board |-> board, ret |-> FALSE]
    ELSE IF right_blocked(board.blocks,
                          (position(focus).x + width(focus)) % U8, position(focus).y)
         THEN [board |-> board, ret |-> FALSE]
    ELSE [board |-> [board EXCEPT !.blocks[focus_index] = position_x_add(focus, 1)],
          ret |-> TRUE]

\* Board::right: [board, ret]
right(board) ==
    IF get_focused_index(board) = <<>> THEN [board |-> board, ret |-> FALSE]
    ELSE The({right_focus(board, i, board.blocks[i]) : i \in {get_focused_index(board)[1]}})

(***************************************************************************)
(* Timer                                                                   *)
(***************************************************************************)
\* Timer::new
Timer_new(fall_interval, spawn_interval, drift_interval) ==
    [drift_interval |-> drift_interval,
     fall_count |-> drift_interval,
     fall_interval |-> fall_interval,
     spawn_interval |-> spawn_interval,
     spawn_timer |-> spawn_interval,
     fall_timer |-> fall_interval,
     last_delta |-> 0]

\* a decrement of fall_count by two
fall_count_dec_two(c) == (c - 2) % U8

\* the u8 decrement of fall_count (a release build wraps)
fall_count_dec(c) == (c - 1) % U8

\* a tick that restarts a countdown at its interval and drops the overshoot
Timer_tick_restart(timer, delta_time) ==
    LET should_spawn == timer.spawn_timer - delta_time <= 0
        should_fall == timer.fall_timer - delta_time <= 0
        fall_count == IF should_fall THEN fall_count_dec(timer.fall_count)
                      ELSE timer.fall_count
    IN  [timer |->
            [timer EXCEPT
                !.last_delta = delta_time,
                !.fall_timer = IF should_fall THEN timer.fall_interval
                               ELSE timer.fall_timer - delta_time,
                !.spawn_timer = IF should_spawn THEN timer.spawn_interval
                                ELSE timer.spawn_timer - delta_time,
                !.fall_count = IF fall_count = 0 THEN timer.drift_interval ELSE fall_count],
         msg |-> [should_spawn |-> should_spawn,
                  should_fall |-> should_fall,
                  should_drift |-> fall_count = 0]]

\* Timer::tick: [timer, msg]
Timer_tick(timer, delta_time) ==
    LET should_spawn == timer.spawn_timer - delta_time <= 0
        should_fall == timer.fall_timer - delta_time <= 0
        fall_count == IF should_fall THEN fall_count_dec(timer.fall_count)
                      ELSE timer.fall_count
    IN  [timer |->
            [timer EXCEPT
                !.last_delta = delta_time,
                !.fall_timer = IF should_fall
                               THEN timer.fall_timer - delta_time + timer.fall_interval
                               ELSE timer.fall_timer - delta_time,
                !.spawn_timer = IF should_spawn
                                THEN timer.spawn_timer - delta_time + timer.spawn_interval
                                ELSE timer.spawn_timer - delta_time,
                !.fall_count = IF fall_count = 0 THEN timer.drift_interval ELSE fall_count],
         msg |-> [should_spawn |-> should_spawn,
                  should_fall |-> should_fall,
                  should_drift |-> fall_count = 0]]

(***************************************************************************)
(* Game                                                                    *)
(***************************************************************************)
Splash == "Splash"
Playing == "Playing"
GameOver == "GameOver"

\* impl Default for Settings
Settings_default ==
    [width |-> 12, height |-> 16, starts_with_one |-> TRUE, starts_with_splash |-> FALSE,
     spawn_interval |-> 4000, fall_interval |-> 100, drift_interval |-> 8]

\* the settings a Game is constructed with in this model
SettingsSet ==
    {[width |-> w, height |-> h, starts_with_one |-> o, starts_with_splash |-> s,
      spawn_interval |-> si, fall_interval |-> fi, drift_interval |-> di] :
        w \in Widths, h \in Heights, o \in BOOLEAN, s \in BOOLEAN,
        si \in SpawnIntervals, fi \in FallIntervals, di \in DriftIntervals}

\* Block::new_line(..).expect(..) on a static ASCII text
splash_line(text, state, bx, by) == new_line(text, state, bx, by)[1]

\* the "typing" block of the splash screen with 't', 'y', 'i', 'n' typed
splash_typing ==
    add_char(add_char(add_char(add_char(
        splash_line(<<"t","y","p","i","n","g">>, Interactable, 5, 12),
        "t").block, "y").block, "i").block, "n").block

\* the board Game::splash builds, before its sort
splash_board ==
    [blocks |->
        << splash_line(<<"T","y","p","e","t","r","i","s">>, Interactable, 2, 0),
           splash_line(<<"I","t","'","s">>, Interactable, 0, 4),
           splash_line(<<"l","i","k","e">>, Interactable, 3, 5),
           splash_line(<<"T","e","t","r","i","s">>, Interactable, 6, 6),
           splash_line(<<"b","u","t">>, Interactable, 8, 8),
           splash_line(<<"m","a","k","e">>, Interactable, 4, 9),
           splash_line(<<"i","t">>, Interactable, 2, 10),
           splash_line(<<"a">>, Interactable, 4, 11),
           splash_typing,
           splash_line(<<"g","a","m","e">>, Settled, 4, 15) >>,
     width |-> 12,
     height |-> 16]

\* Game::splash
Game_splash ==
    [board |-> sort(splash_board),
     timer |-> Timer_new(Settings_default.fall_interval,
                         Settings_default.spawn_interval,
                         Settings_default.drift_interval),
     score |-> 0,
     state |-> Splash,
     settings |-> [Settings_default EXCEPT !.width = 12, !.height = 16]]

\* Game::new with the draw of Block::random made explicit
Game_new(settings, draw) ==
    IF settings.starts_with_splash
    THEN [Game_splash EXCEPT !.settings = [settings EXCEPT !.starts_with_splash = FALSE]]
    ELSE [board |-> Board_new(settings.width, settings.height,
                              settings.starts_with_one, draw),
          timer |-> Timer_new(settings.fall_interval, settings.spawn_interval,
                              settings.drift_interval),
          score |-> 0,
          state |-> Playing,
          settings |-> settings]

\* is_playing taking the splash screen for a running game
is_playing_or_splash(g) == g.state # GameOver

is_playing(g) == g.state = Playing
is_game_over(g) == g.state = GameOver
is_splash(g) == g.state = Splash

\* the x-ranges of two blocks share a column
SameColumns(a, b) ==
    /\ block_x(a) < block_x(b) + width(b)
    /\ block_x(b) < block_x(a) + width(a)

\* Board::find_max_y(index): the lowest row the block can fall to, counting only the
\* Settled blocks in its columns (its code is not in src/; modelled from its test
\* and from the use Game::tick makes of it)
find_max_y(board, index) ==
    LET under == {j \in 1..Len(board.blocks) :
                    /\ j # index
                    /\ is_settled(board.blocks[j])
                    /\ SameColumns(board.blocks[j], board.blocks[index])
                    /\ block_y(board.blocks[j]) >= block_y(board.blocks[index])}
    IN  IF under = {} THEN board.height - 1
        ELSE saturating_sub(Min({block_y(board.blocks[j]) : j \in under}), 1)

\* the score a BlocksSettled fall step adds
cleared_rows(cleared) == Cardinality({block_y(cleared[i]) : i \in 1..Len(cleared)})

\* the spawn step's end-of-game test
spawn_ends_game(board) == find_max_y(board, Len(board.blocks)) = 0

NoTimerMsg == [should_spawn |-> FALSE, should_fall |-> FALSE, should_drift |-> FALSE]

\* what a call of handle_event did: the Game after it, the bool it returned and,
\* for the record, what the steps of a Tick reported
plain(g, ret) ==
    [game |-> g, ret |-> ret, timer_msg |-> NoTimerMsg, fall_msg |-> "NotRun",
     cleared |-> <<>>, clear_ran |-> FALSE]

\* Game::tick after self.timer.tick(delta_time), t its [timer, msg]
tick_timed(g, t) ==
    [plain([g EXCEPT !.timer = t.timer], FALSE) EXCEPT !.timer_msg = t.msg]

\* the BlocksSettled arm: clear_completed ran and gave cc
tick_cleared(r, cc) ==
    [r EXCEPT !.game.board = cc.board,
              !.game.score = r.game.score + cleared_rows(cc.removed),
              !.cleared = cc.removed,
              !.clear_ran = TRUE]

\* the match on what fall_tick returned, ft its [board, msg]
tick_fell(r, ft) ==
    IF ft.msg = "GameOver"
    THEN [r EXCEPT !.game.board = ft.board, !.game.state = GameOver,
                   !.ret = TRUE, !.fall_msg = ft.msg]
    ELSE IF ft.msg = "BlocksSettled"
    THEN The({tick_cleared([r EXCEPT !.ret = TRUE, !.fall_msg = ft.msg], cc) :
                cc \in {clear_completed(ft.board)}})
    ELSE IF ft.msg = "Updated"
    THEN [r EXCEPT !.game.board = ft.board, !.ret = TRUE, !.fall_msg = ft.msg]
    ELSE [r EXCEPT !.game.board = ft.board, !.ret = FALSE, !.fall_msg = ft.msg]

\* the fall step of Game::tick
tick_fall(r) ==
    IF r.timer_msg.should_fall
    THEN The({tick_fell(r, ft) :
                ft \in {fall_tick(r.game.board, r.timer_msg.should_drift)}})
    ELSE r

\* the spawn step without `ret = true`
tick_spawned_quiet(r, board) ==
    [r EXCEPT !.game.board = board,
              !.game.state = IF spawn_ends_game(board) THEN GameOver ELSE r.game.state]

\* the spawn step once spawn_block has run and left board
tick_spawned(r, board) ==
    [r EXCEPT !.game.board = board,
              !.ret = TRUE,
              !.game.state = IF spawn_ends_game(board) THEN GameOver ELSE r.game.state]

\* the spawn step of Game::tick
tick_spawn(r, draw) ==
    IF r.timer_msg.should_spawn
    THEN The({tick_spawned(r, board) : board \in {spawn_block(r.game.board, draw)}})
    ELSE r

\* a tick that spawns before the fall step
tick_spawns_first(g, delta_time, draw) ==
    The({tick_fall(spawned) :
            spawned \in {tick_spawn(timed, draw) :
                timed \in {tick_timed(g, t) :
                    t \in {Timer_tick(g.timer, delta_time)}}}})

\* Game::tick
tick(g, delta_time, draw) ==
    The({tick_spawn(fallen, draw) :
            fallen \in {tick_fall(timed) :
                timed \in {tick_timed(g, t) :
                    t \in {Timer_tick(g.timer, delta_time)}}}})

\* a Board method that returns a bool, run on the Game's board
on_board(g, r) == plain([g EXCEPT !.board = r.board], r.ret)

\* a Block method on the focused block that scores a point when it returns true
on_focused_scoring(g, i, r) ==
    plain([g EXCEPT !.board.blocks[i] = r.block,
                    !.score = IF r.ret THEN g.score + 1 ELSE g.score], r.ret)

\* a Block method that returns a bool, run on the focused block (blocks[i])
on_focused(g, i, r) == plain([g EXCEPT !.board.blocks[i] = r.block], r.ret)

\* add_char run on the last Interactable block instead of the focused one
Game_add_char_last(g, ch) ==
    IF InteractableIndices(g.board) # {}
    THEN The({The({on_focused(g, i, r) : r \in {add_char(g.board.blocks[i], ch)}}) :
                i \in {Max(InteractableIndices(g.board))}})
    ELSE plain(g, FALSE)

\* Game::add_char
Game_add_char(g, ch) ==
    IF get_focused_index(g.board) # <<>>
    THEN The({The({on_focused(g, i, r) : r \in {add_char(g.board.blocks[i], ch)}}) :
                i \in {get_focused_index(g.board)[1]}})
    ELSE plain(g, FALSE)

\* Game::delete_char
Game_delete_char(g) ==
    IF get_focused_index(g.board) # <<>>
    THEN The({The({on_focused(g, i, r) : r \in {delete_char(g.board.blocks[i])}}) :
                i \in {get_focused_index(g.board)[1]}})
    ELSE plain(g, FALSE)

\* Game::focus_next
Game_focus_next(g) == The({on_board(g, r) : r \in {focus_next(g.board)}})

\* Game::left
Game_left(g) == The({on_board(g, r) : r \in {left(g.board)}})

\* Game::right
Game_right(g) == The({on_board(g, r) : r \in {right(g.board)}})

\* new_game keeping the old timer
new_game_keeps_timer(g, draw) == [Game_new(g.settings, draw) EXCEPT !.timer = g.timer]

\* Game::new_game
new_game(g, draw) == Game_new(g.settings, draw)

\* Game::handle_event; an event is [kind, arg], draw is what Block::random draws
handle_event(g, event, draw) ==
    IF event.kind = "NewGame" THEN plain(new_game(g, draw), TRUE)
    ELSE IF ~ is_playing(g) THEN plain(g, FALSE)
    ELSE IF event.kind = "Tick" THEN tick(g, event.arg, draw)
    ELSE IF event.kind = "Type" THEN Game_add_char(g, event.arg)
    ELSE IF event.kind = "Delete" THEN Game_delete_char(g)
    ELSE IF event.kind = "Next" THEN Game_focus_next(g)
    ELSE IF event.kind = "Left" THEN Game_left(g)
    ELSE Game_right(g)

(***************************************************************************)
(* Spec: a Game from Game::new, driven by handle_event.                    *)
(* last records the event handled last, what handle_event returned and     *)
(* what the steps of a Tick reported.                                      *)
(***************************************************************************)
Event(kind, arg) == [kind |-> kind, arg |-> arg]

Record(g, event, r) ==
    [event |-> event, from |-> g.state, ret |-> r.ret, timer_msg |-> r.timer_msg,
     fall_msg |-> r.fall_msg, cleared |-> r.cleared, clear_ran |-> r.clear_ran]

Init ==
    \E settings \in SettingsSet : \E draw \in RandomDraws(settings.width) :
        /\ game = Game_new(settings, draw)
        /\ last = Record(game, Event("new", 0), plain(game, FALSE))

Tick(delta_time) ==
    \E draw \in RandomDraws(game.settings.width) :
        \E r \in {handle_event(game, Event("Tick", delta_time), draw)} :
            /\ Len(r.game.board.blocks) <= MaxBlocks
            /\ game' = r.game
            /\ last' = Record(game, Event("Tick", delta_time), r)

Type(ch) ==
    \E r \in {handle_event(game, Event("Type", ch), <<>>)} :
        /\ game' = r.game
        /\ last' = Record(game, Event("Type", ch), r)

Delete ==
    \E r \in {handle_event(game, Event("Delete", 0), <<>>)} :
        /\ game' = r.game
        /\ last' = Record(game, Event("Delete", 0), r)

FocusNext ==
    \E r \in {handle_event(game, Event("Next", 0), <<>>)} :
        /\ game' = r.game
        /\ last' = Record(game, Event("Next", 0), r)

Left ==
    \E r \in {handle_event(game, Event("Left", 0), <<>>)} :
        /\ game' = r.game
        /\ last' = Record(game, Event("Left", 0), r)

Right ==
    \E r \in {handle_event(game, Event("Right", 0), <<>>)} :
        /\ game' = r.game
        /\ last' = Record(game, Event("Right", 0), r)

NewGame ==
    \E draw \in RandomDraws(game.settings.width) :
        \E r \in {handle_event(game, Event("NewGame", 0), draw)} :
            /\ game' = r.game
            /\ last' = Record(game, Event("NewGame", 0), r)

Next ==
    \/ \E delta_time \in Deltas : Tick(delta_time)
    \/ \E ch \in TypeChars : Type(ch)
    \/ Delete
    \/ FocusNext
    \/ Left
    \/ Right
    \/ NewGame

Spec == Init /\ [][Next]_vars

(***************************************************************************)
(* SpecBoard: a Playing Game over any well-formed board, as the tests of   *)
(* board.rs and mod.rs build them (Block::new_settled, new_falling,        *)
(* new_interactable, push_block), driven by handle_event and by            *)
(* Board::clear_completed called on the board directly.                    *)
(***************************************************************************)
\* a block with its assigned text typed from cell k on
RECURSIVE typed_from(_, _)
typed_from(b, k) ==
    IF k > Len(b.cells) THEN b
    ELSE typed_from(add_char(b, b.cells[k].assigned_char).block, k + 1)

\* the line blocks that fit a board: any word, state and place, an Interactable
\* block either untouched or with its text typed
LineBlocks(board_width, board_height) ==
    {new_line_block(d[1], st, d[2], y) :
        d \in RandomDraws(board_width), st \in BlockStates, y \in 0..(board_height - 1)}
    \cup
    {typed_from(new_line_block(d[1], Interactable, d[2], y), 1) :
        d \in RandomDraws(board_width), y \in 0..(board_height - 1)}

\* what holds of the blocks of a Playing Game between two events: no two blocks
\* intersect, the blocks are in state order with the Settled ones sorted, and no
\* Settled block lies in row 0
WellFormed(blocks) ==
    /\ \A i, j \in 1..Len(blocks) :
          i < j => /\ ~ intersect(blocks[i], blocks[j])
                   /\ State_ord(blocks[i].state) <= State_ord(blocks[j].state)
                   /\ is_settled(blocks[j]) => Block_cmp(blocks[i], blocks[j]) < 0
    /\ \A i \in 1..Len(blocks) : is_settled(blocks[i]) => block_y(blocks[i]) # 0

BoardsOf(board_width, board_height) ==
    {blocks \in UNION {[1..n -> LineBlocks(board_width, board_height)] : n \in 0..MaxInit} :
        WellFormed(blocks)}

\* the settings of the Games SpecBoard starts from
BoardSettingsSet ==
    {[s EXCEPT !.width = w, !.height = h] :
        s \in {c \in SettingsSet : ~ c.starts_with_splash /\ ~ c.starts_with_one},
        w \in BoardWidths, h \in BoardHeights}

InitBoard ==
    \E settings \in BoardSettingsSet :
        \E blocks \in BoardsOf(settings.width, settings.height) :
            /\ game = [Game_new(settings, <<>>) EXCEPT !.board.blocks = blocks]
            /\ last = Record(game, Event("new", 0), plain(game, FALSE))

\* nothing has been called on the Game yet
Fresh == last.event.kind = "new"

\* Board::clear_completed called on the board of the Game
ClearCompleted ==
    \E cc \in {clear_completed(game.board)} :
        /\ game' = [game EXCEPT !.board = cc.board]
        /\ last' = Record(game, Event("clear_completed", 0),
                          [plain(game', cc.removed # <<>>) EXCEPT
                              !.cleared = cc.removed, !.clear_ran = TRUE])

\* Board::fall_tick called on the board of the Game
FallTick(include_interactable) ==
    \E ft \in {fall_tick(game.board, include_interactable)} :
        /\ game' = [game EXCEPT !.board = ft.board]
        /\ last' = Record(game, Event("fall_tick", include_interactable),
                          [plain(game', ft.msg # "None") EXCEPT !.fall_msg = ft.msg])

\* one call on each Game
NextBoard ==
    \/ Fresh /\ \E delta_time \in Deltas : Tick(delta_time)
    \/ Fresh /\ \E ch \in TypeChars : Type(ch)
    \/ Fresh /\ Delete
    \/ Fresh /\ FocusNext
    \/ Fresh /\ Left
    \/ Fresh /\ Right
    \/ Fresh /\ NewGame
    \/ Fresh /\ ClearCompleted
    \/ Fresh /\ \E include_interactable \in BOOLEAN : FallTick(include_interactable)

SpecBoard == InitBoard /\ [][NextBoard]_vars

(***************************************************************************)
(* Properties                                                              *)
(***************************************************************************)
\* the positions of the cells of a block
Positions(b) == {b.cells[i].position : i \in 1..Len(b.cells)}

\* the indices of the Interactable blocks of a sequence of blocks
InteractableOf(blocks) == {i \in 1..Len(blocks) : blocks[i].state = Interactable}

\* some cell of the block has no typed character or one that is not the assigned one
Mistyped(b) ==
    \E i \in 1..Len(b.cells) : b.cells[i].input_char # <<b.cells[i].assigned_char>>

\* the block moved by d columns and otherwise the same
Moved(b, d) ==
    [b EXCEPT !.bounding_box.x = b.bounding_box.x + d,
              !.cells = [i \in 1..Len(b.cells) |->
                            [b.cells[i] EXCEPT !.position.x = b.cells[i].position.x + d]]]

\* a Settled block of the row of b ends where b begins / begins where b ends
SettledOnLeft(blocks, b) ==
    \E j \in 1..Len(blocks) :
        /\ blocks[j].state = Settled
        /\ blocks[j].bounding_box.y = b.bounding_box.y
        /\ blocks[j].bounding_box.x + blocks[j].bounding_box.width = b.bounding_box.x

SettledOnRight(blocks, b) ==
    \E j \in 1..Len(blocks) :
        /\ blocks[j].state = Settled
        /\ blocks[j].bounding_box.y = b.bounding_box.y
        /\ blocks[j].bounding_box.x = b.bounding_box.x + b.bounding_box.width

\* the Settled blocks of row y cover the columns 0..board_width-1 (on a board
\* without overlap: they tile the row)
RowTiled(blocks, y, board_width) ==
    \A x \in 0..(board_width - 1) :
        \E j \in 1..Len(blocks) :
            /\ blocks[j].state = Settled
            /\ blocks[j].bounding_box.y = y
            /\ blocks[j].bounding_box.x <= x
            /\ x < blocks[j].bounding_box.x + blocks[j].bounding_box.width

\* the rows of a sequence of blocks
RowsOf(blocks) == {blocks[i].bounding_box.y : i \in 1..Len(blocks)}

\* C1: in every state reachable from Game::new by any sequence of events, no two
\* cells of distinct blocks of the board share a position.
C1_NoOverlap ==
    \A i, j \in 1..Len(game.board.blocks) :
        i # j => Positions(game.board.blocks[i]) \cap Positions(game.board.blocks[j]) = {}

\* C2: in every state reachable from a Game created in Playing mode (Game::new
\* without splash, or any Game after NewGame), at most one block is Interactable,
\* also after a Tick that spawns a block while another is still Interactable.
C2_AtMostOneInteractable ==
    game.state # Splash => Cardinality(InteractableOf(game.board.blocks)) <= 1

\* C3: while the mode is Splash or GameOver, handle_event of every event other than
\* NewGame returns false and leaves the whole Game unchanged.
C3_OnlyNewGameWhenNotPlaying ==
    [][(game.state \in {Splash, GameOver} /\ last'.event.kind # "NewGame")
            => (last'.ret = FALSE /\ game' = game)]_vars

\* a Tick handled in GameOver mode returned false
C3_Witness ==
    /\ last.event.kind = "Tick"
    /\ last.from = GameOver
    /\ last.ret = FALSE
    /\ game.state = GameOver

\* C4: from any mode, handle_event(NewGame) returns true and leaves a Playing Game
\* with score 0, the fall and spawn countdowns at the configured intervals, the drift
\* counter at the configured drift interval, and a board of the configured width and
\* height that holds one Interactable block in row 0 when starts_with_one is set and
\* no block otherwise.
C4_NewGameResets ==
    last.event.kind = "NewGame" =>
        /\ last.ret = TRUE
        /\ game.state = Playing
        /\ game.score = 0
        /\ game.timer.fall_timer = game.settings.fall_interval
        /\ game.timer.spawn_timer = game.settings.spawn_interval
        /\ game.timer.fall_count = game.settings.drift_interval
        /\ game.timer.fall_interval = game.settings.fall_interval
        /\ game.timer.spawn_interval = game.settings.spawn_interval
        /\ game.timer.drift_interval = game.settings.drift_interval
        /\ game.timer.last_delta = 0
        /\ game.board.width = game.settings.width
        /\ game.board.height = game.settings.height
        /\ IF game.settings.starts_with_one
           THEN /\ Len(game.board.blocks) = 1
                /\ game.board.blocks[1].state = Interactable
                /\ game.board.blocks[1].bounding_box.y = 0
                /\ \A i \in 1..Len(game.board.blocks[1].cells) :
                      game.board.blocks[1].cells[i].input_char = <<>>
           ELSE game.board.blocks = <<>>

\* NewGame handled in GameOver mode, after the timer had run, with starts_with_one
C4_Witness ==
    /\ last.event.kind = "NewGame"
    /\ last.from = GameOver
    /\ game.settings.starts_with_one
    /\ game.state = Playing
    /\ Len(game.board.blocks) = 1

\* C5: clear_completed removes blocks of exactly the rows whose Settled blocks tile
\* [0, width): a row has a block removed iff its Settled blocks, ordered by x, start at
\* 0, each end where the next begins, and end at the board width; no block of a
\* partially filled row is removed.
C5_ClearsExactlyTiledRows ==
    [][last'.event.kind = "clear_completed" =>
          \A y \in 0..(game.board.height - 1) :
              (y \in RowsOf(last'.cleared))
                  <=> RowTiled(game.board.blocks, y, game.board.width)]_vars

\* C7: a block that becomes Settled in fall_tick while in row 0 makes fall_tick return
\* GameOver at once, the blocks at later indices untouched, and the Tick leaves the
\* Game in GameOver mode with clear_completed not called and the score unchanged; a
\* block that settles in another row does not cause GameOver: a fall step reports
\* GameOver only when a block of row 0 became Settled.
C7_GameOverOnlyFromRowZero ==
    [][(last'.event.kind = "Tick" /\ last'.fall_msg # "NotRun" /\ ~ last'.clear_ran) =>
          LET pre == game.board.blocks
              post == game'.board.blocks
              settles == {i \in 1..Len(pre) :
                            pre[i].state # Settled /\ post[i].state = Settled}
              at_top == {i \in settles : pre[i].bounding_box.y = 0}
          IN  /\ at_top # {} =>
                    /\ last'.fall_msg = "GameOver"
                    /\ game'.state = GameOver
                    /\ game'.score = game.score
                    /\ \A j \in 1..Len(pre) :
                          (\A i \in at_top : j > i) => post[j] = pre[j]
              /\ last'.fall_msg = "GameOver" => at_top # {}]_vars

C9_MoveByOneOrRefuse ==
    [][(last'.event.kind \in {"Left", "Right"}
            /\ game.state = Playing
            /\ InteractableOf(game.board.blocks) # {}) =>
          LET pre == game.board.blocks
              i == Min(InteractableOf(pre))
              d == IF last'.event.kind = "Left" THEN -1 ELSE 1
              at_edge == IF d = -1
                         THEN pre[i].bounding_box.x = 0
                         ELSE pre[i].bounding_box.x + pre[i].bounding_box.width
                                = game.board.width
              at_settled == IF d = -1 THEN SettledOnLeft(pre, pre[i])
                            ELSE SettledOnRight(pre, pre[i])
          IN  /\ (~ Mistyped(pre[i]) /\ ~ at_edge /\ ~ at_settled) =>
                    /\ last'.ret = TRUE
                    /\ game'.board = [game.board EXCEPT !.blocks[i] = Moved(pre[i], d)]
              /\ (at_edge \/ at_settled) => last'.ret = FALSE
              /\ last'.ret = FALSE => game'.board = game.board]_vars

\* left() was refused for a movable block away from the edge, a Settled block being
\* next to it on the left
C9_Witness ==
    /\ last.event.kind = "Left"
    /\ last.from = Playing
    /\ last.ret = FALSE
    /\ InteractableOf(game.board.blocks) # {}
    /\ LET b == game.board.blocks[Min(InteractableOf(game.board.blocks))]
       IN  /\ ~ Mistyped(b)
           /\ b.bounding_box.x > 0
           /\ SettledOnLeft(game.board.blocks, b)

\* C10: left and right never move a block that is not movable: when no block is
\* Interactable, or the focused block has a cell whose typed character is missing or
\* differs from the assigned one, they return false and leave the board unchanged.
C10_NotMovableStays ==
    [][(last'.event.kind \in {"Left", "Right"}
            /\ (\/ InteractableOf(game.board.blocks) = {}
                \/ Mistyped(game.board.blocks[Min(InteractableOf(game.board.blocks))])))
            => (last'.ret = FALSE /\ game'.board = game.board)]_vars

\* Left was refused in a running game for a block away from the left edge whose typed
\* character differs from the assigned one
C10_Witness ==
    /\ last.event.kind = "Left"
    /\ last.from = Playing
    /\ last.ret = FALSE
    /\ InteractableOf(game.board.blocks) # {}
    /\ LET b == game.board.blocks[Min(InteractableOf(game.board.blocks))]
       IN  /\ b.bounding_box.x > 0
           /\ \E i \in 1..Len(b.cells) :
                 /\ b.cells[i].input_char # <<>>
                 /\ b.cells[i].input_char # <<b.cells[i].assigned_char>>

\* C11: fall_tick on a board whose blocks are all Settled (the empty board too) is
\* a no-op for both values of include_interactable: it reports None and the board
\* is unchanged.
C11_AllSettledNoOp ==
    [][(last'.event.kind = "fall_tick"
            /\ \A i \in 1..Len(game.board.blocks) : game.board.blocks[i].state = Settled)
            => (last'.fall_msg = "None" /\ last'.ret = FALSE /\ game'.board = game.board)]_vars

\* fall_tick(true) ran on a board of two Settled blocks
C11_Witness ==
    /\ last.event.kind = "fall_tick"
    /\ last.event.arg = TRUE
    /\ last.fall_msg = "None"
    /\ Len(game.board.blocks) = 2
    /\ \A i \in 1..Len(game.board.blocks) : game.board.blocks[i].state = Settled

\* the block one row further down and otherwise the same
MovedDown(b) ==
    [b EXCEPT !.bounding_box.y = b.bounding_box.y + 1,
              !.cells = [i \in 1..Len(b.cells) |->
                            [b.cells[i] EXCEPT !.position.y = b.cells[i].position.y + 1]]]

\* C12: fall_tick(false) changes nothing of an Interactable block (position, state,
\* typed input) and processes the Falling blocks; fall_tick(true) processes the
\* Interactable blocks too. A processed block falls one row or is Settled where it
\* is; only a GameOver return leaves later blocks unprocessed. The same holds of the
\* fall step of a Tick, which includes the Interactable blocks on a drift Tick only.
C12_FocusStaysOthersFall ==
    [][(\/ last'.event.kind = "fall_tick"
        \/ (last'.event.kind = "Tick" /\ last'.fall_msg # "NotRun" /\ ~ last'.clear_ran
               /\ ~ last'.timer_msg.should_spawn)) =>
          LET pre == game.board.blocks
              post == game'.board.blocks
              include == IF last'.event.kind = "fall_tick" THEN last'.event.arg
                         ELSE last'.timer_msg.should_drift
          IN  /\ Len(post) = Len(pre)
              /\ \A i \in 1..Len(pre) :
                    IF pre[i].state = Settled \/ (~ include /\ pre[i].state = Interactable)
                    THEN post[i] = pre[i]
                    ELSE \/ post[i] = MovedDown(pre[i])
                         \/ post[i] = [pre[i] EXCEPT !.state = Settled]
                         \/ (last'.fall_msg = "GameOver" /\ post[i] = pre[i])]_vars

(***************************************************************************)
(* SpecBlock: Block::add_char and Block::delete_char called on a block in  *)
(* any state, with any prefix of its cells typed. The block is blocks[1]   *)
(* of the board.                                                           *)
(***************************************************************************)
BlockChars == {"a", "B", "1", "'"}

\* the block with its first Len(typed) cells holding typed
typed_with(b, typed) ==
    [b EXCEPT !.cells = [i \in 1..Len(b.cells) |->
        [b.cells[i] EXCEPT !.input_char = IF i <= Len(typed) THEN <<typed[i]>> ELSE <<>>]]]

TypedBlocks(board_width) ==
    UNION {{typed_with(new_line_block(d[1], st, d[2], 0), typed) :
                st \in BlockStates,
                typed \in UNION {[1..k -> BlockChars \cap AsciiLetters] : k \in 0..Len(d[1])}} :
           d \in RandomDraws(board_width)}

InitBlock ==
    \E settings \in BoardSettingsSet :
        \E b \in TypedBlocks(settings.width) :
            /\ game = [Game_new(settings, <<>>) EXCEPT !.board.blocks = <<b>>]
            /\ last = Record(game, Event("new", 0), plain(game, FALSE))

BlockAddChar(ch) ==
    \E r \in {add_char(game.board.blocks[1], ch)} :
        /\ game' = [game EXCEPT !.board.blocks[1] = r.block]
        /\ last' = Record(game, Event("add_char", ch), plain(game', r.ret))

BlockDeleteChar ==
    \E r \in {delete_char(game.board.blocks[1])} :
        /\ game' = [game EXCEPT !.board.blocks[1] = r.block]
        /\ last' = Record(game, Event("delete_char", 0), plain(game', r.ret))

NextBlock ==
    \/ \E ch \in BlockChars : BlockAddChar(ch)
    \/ BlockDeleteChar

SpecBlock == InitBlock /\ [][NextBlock]_vars

\* cell i is the first empty cell of b
FirstEmpty(b, i) ==
    /\ b.cells[i].input_char = <<>>
    /\ \A j \in 1..(i - 1) : b.cells[j].input_char # <<>>

\* cell i is the last filled cell of b
LastFilled(b, i) ==
    /\ b.cells[i].input_char # <<>>
    /\ \A j \in (i + 1)..Len(b.cells) : b.cells[j].input_char = <<>>

\* C13: add_char(ch) changes the block exactly when the block is Interactable, ch is
\* an ASCII letter and some cell is empty: the first empty cell then holds ch as
\* given (case kept), nothing else changes and true is returned; otherwise false is
\* returned and the block is unchanged.
C13_AddCharFillsFirstEmpty ==
    [][last'.event.kind = "add_char" =>
          LET b == game.board.blocks[1]
              after == game'.board.blocks[1]
              ch == last'.event.arg
          IN  IF b.state = Interactable /\ ch \in AsciiLetters
                 /\ \E i \in 1..Len(b.cells) : b.cells[i].input_char = <<>>
              THEN /\ last'.ret = TRUE
                   /\ \E i \in 1..Len(b.cells) :
                         /\ FirstEmpty(b, i)
                         /\ after = [b EXCEPT !.cells[i].input_char = <<ch>>]
              ELSE /\ last'.ret = FALSE
                   /\ after = b]_vars

\* an upper-case letter went into the second cell, after the filled first one
C13_Witness ==
    /\ last.event.kind = "add_char"
    /\ last.ret = TRUE
    /\ Len(game.board.blocks[1].cells) = 2
    /\ game.board.blocks[1].cells[1].input_char = <<"a">>
    /\ game.board.blocks[1].cells[2].input_char = <<"B">>

\* C14: delete_char() changes the block exactly when the block is Interactable and
\* some cell holds typed input: the last filled cell is then cleared, nothing else
\* changes and true is returned; otherwise false is returned and the block is
\* unchanged.
C14_DeleteCharClearsLastFilled ==
    [][last'.event.kind = "delete_char" =>
          LET b == game.board.blocks[1]
              after == game'.board.blocks[1]
          IN  IF b.state = Interactable
                 /\ \E i \in 1..Len(b.cells) : b.cells[i].input_char # <<>>
              THEN /\ last'.ret = TRUE
                   /\ \E i \in 1..Len(b.cells) :
                         /\ LastFilled(b, i)
                         /\ after = [b EXCEPT !.cells[i].input_char = <<>>]
              ELSE /\ last'.ret = FALSE
                   /\ after = b]_vars

\* of two typed cells the second was cleared and the first kept
C14_Witness ==
    /\ last.event.kind = "delete_char"
    /\ last.ret = TRUE
    /\ Len(game.board.blocks[1].cells) = 2
    /\ game.board.blocks[1].cells[1].input_char # <<>>
    /\ game.board.blocks[1].cells[2].input_char = <<>>

\* blocks[i] is the first Interactable block in index order
FirstInteractable(blocks, i) ==
    /\ blocks[i].state = Interactable
    /\ \A j \in 1..(i - 1) : blocks[j].state # Interactable

\* C15: focus_next() turns the first Interactable block in index order into a
\* Falling one, leaves everything else as it was and returns true; with no
\* Interactable block it returns false and the board is unchanged.
C15_FocusNextReleasesFirst ==
    [][(last'.event.kind = "Next" /\ last'.from = Playing) =>
          IF \E i \in 1..Len(game.board.blocks) : game.board.blocks[i].state = Interactable
          THEN /\ last'.ret = TRUE
               /\ \E i \in 1..Len(game.board.blocks) :
                     /\ FirstInteractable(game.board.blocks, i)
                     /\ game' = [game EXCEPT !.board.blocks[i].state = Falling]
          ELSE /\ last'.ret = FALSE
               /\ game' = game]_vars

\* of two Interactable blocks the first was released and the second now has the focus
C15_Witness ==
    /\ last.event.kind = "Next"
    /\ last.ret = TRUE
    /\ Len(game.board.blocks) = 2
    /\ game.board.blocks[1].state = Falling
    /\ game.board.blocks[2].state = Interactable
    /\ get_focused_index(game.board) = <<2>>

\* what a player sees of a Game: the blocks of the board with their positions,
\* states and typed input, the score and the mode
Visible(g) == <<g.board.blocks, g.score, g.state>>

\* C16: for every event other than NewGame, handle_event returns true exactly when
\* the visible state (blocks, score or mode) differs afterwards; when it returns
\* false, board, score and mode are as before.
C16_ReturnsWhetherChanged ==
    [][last'.event.kind \in {"Tick", "Type", "Delete", "Next", "Left", "Right"} =>
          /\ last'.ret = (Visible(game') # Visible(game))
          /\ last'.ret = FALSE =>
                (game'.board = game.board /\ game'.score = game.score
                    /\ game'.state = game.state)]_vars

\* a Tick on which nothing fell returned true for the block that it spawned
C16_Witness ==
    /\ last.event.kind = "Tick"
    /\ last.ret = TRUE
    /\ last.timer_msg.should_spawn
    /\ last.fall_msg \in {"NotRun", "None"}
    /\ game.state = Playing

\* C17: across any event other than NewGame the score never decreases, and it can
\* only change in a Tick that is handled in Playing mode.
C17_ScoreMonotonic ==
    [][last'.event.kind \in {"Tick", "Type", "Delete", "Next", "Left", "Right"} =>
          /\ game'.score >= game.score
          /\ game'.score # game.score =>
                (last'.event.kind = "Tick" /\ game.state = Playing)]_vars

\* a Tick handled in Playing mode changed the board and left the score where it was
C17_Witness ==
    /\ last.event.kind = "Tick"
    /\ last.from = Playing
    /\ last.ret = TRUE
    /\ last.fall_msg = "GameOver"
    /\ game.score = 0

(***************************************************************************)
(* SpecTimer: Timer::tick called up to MaxTicks times on a Timer from      *)
(* Timer::new. Times are in tenths of the unit of test::t0, so that        *)
(* Timer::new(1.0, 2.0, 2) is Timer_new(10, 20, 2) and tick(0.7) is a      *)
(* tick of 7. last.event.arg is the sequence of the deltas so far.         *)
(***************************************************************************)
MaxTicks == 4

\* (fall_interval, spawn_interval, drift_interval)
TimerIntervals == {<<10, 20, 2>>, <<10, 10, 1>>}

TimerDeltas == {2, 7, 8, 10}

InitTimer ==
    \E iv \in TimerIntervals :
        /\ game = Game_new([Settings_default EXCEPT !.starts_with_one = FALSE,
                                                    !.fall_interval = iv[1],
                                                    !.spawn_interval = iv[2],
                                                    !.drift_interval = iv[3]], <<>>)
        /\ last = Record(game, Event("new", <<>>), plain(game, FALSE))

TimerTick(delta_time) ==
    /\ Len(last.event.arg) < MaxTicks
    /\ \E t \in {Timer_tick(game.timer, delta_time)} :
          /\ game' = [game EXCEPT !.timer = t.timer]
          /\ last' = Record(game, Event("timer_tick", Append(last.event.arg, delta_time)),
                            [plain(game', FALSE) EXCEPT !.timer_msg = t.msg])

NextTimer == \E delta_time \in TimerDeltas : TimerTick(delta_time)

SpecTimer == InitTimer /\ [][NextTimer]_vars

TimerMsg(should_spawn, should_fall, should_drift) ==
    [should_spawn |-> should_spawn, should_fall |-> should_fall,
     should_drift |-> should_drift]

\* the Timer of test::t0 after the ticks deltas
AfterTicks(deltas) ==
    /\ last.event.kind = "timer_tick"
    /\ last.event.arg = deltas
    /\ game.timer.fall_interval = 10
    /\ game.timer.spawn_interval = 20
    /\ game.timer.drift_interval = 2

\* tick(delta) takes delta from both countdowns, flags should_fall exactly when the
\* fall countdown is then <= 0 and then adds one fall_interval to it, and likewise
\* for should_spawn and the spawn countdown
TickCountsDown ==
    last'.event.kind = "timer_tick" =>
        LET delta == last'.event.arg[Len(last'.event.arg)]
            msg == last'.timer_msg
        IN  /\ game'.timer.last_delta = delta
            /\ msg.should_fall = (game.timer.fall_timer - delta <= 0)
            /\ msg.should_spawn = (game.timer.spawn_timer - delta <= 0)
            /\ game'.timer.fall_timer =
                  game.timer.fall_timer - delta
                      + (IF msg.should_fall THEN game.timer.fall_interval ELSE 0)
            /\ game'.timer.spawn_timer =
                  game.timer.spawn_timer - delta
                      + (IF msg.should_spawn THEN game.timer.spawn_interval ELSE 0)

\* C19: Timer.tick(delta) subtracts delta from both countdowns, flags should_fall
\* exactly when the fall countdown is then <= 0 and adds exactly one fall_interval
\* back (the overshoot is carried), and likewise for spawn. With fall 1.0, spawn 2.0
\* and drift 2 the ticks 0.7, 0.7, 0.8, 0.2 report: nothing; should_fall only;
\* should_fall, should_spawn and should_drift; nothing.
C19_TimerTick ==
    /\ [][TickCountsDown]_vars
    /\ [](AfterTicks(<<7>>) => last.timer_msg = TimerMsg(FALSE, FALSE, FALSE))
    /\ [](AfterTicks(<<7, 7>>) => last.timer_msg = TimerMsg(FALSE, TRUE, FALSE))
    /\ [](AfterTicks(<<7, 7, 8>>) => last.timer_msg = TimerMsg(TRUE, TRUE, TRUE))
    /\ [](AfterTicks(<<7, 7, 8, 2>>) => last.timer_msg = TimerMsg(FALSE, FALSE, FALSE))

\* the third tick of the example: both countdowns fired and kept their overshoot
C19_Witness ==
    /\ AfterTicks(<<7, 7, 8>>)
    /\ last.timer_msg = TimerMsg(TRUE, TRUE, TRUE)
    /\ game.timer.fall_timer = 8
    /\ game.timer.spawn_timer = 18

(***************************************************************************)
(* SpecScenario: the Game of test::t2 (width 4, height 4, no initial       *)
(* block, fall 1.0, spawn 4.0, drift 4; times in tenths) with the blocks   *)
(* the test pushes, released with Next and driven by Ticks of 1.0 and 1.1. *)
(***************************************************************************)
MaxScenarioBlocks == 3

ScenarioSettings ==
    [Settings_default EXCEPT !.starts_with_one = FALSE, !.width = 4, !.height = 4,
                             !.spawn_interval = 40, !.fall_interval = 10,
                             !.drift_interval = 4]

\* Block::with_text_x for the two blocks of the test
ScenarioBlocks ==
    {new_line(<<"a", "n">>, Interactable, 0, 0)[1],
     new_line(<<"n", "y">>, Interactable, 2, 0)[1]}

ScenarioDeltas == {10, 11}

InitScenario ==
    /\ game = Game_new(ScenarioSettings, <<>>)
    /\ last = Record(game, Event("new", 0), plain(game, FALSE))

\* game.board.push_block(Block::with_text_x(..)): each block once, onto free cells
PushBlock(b) ==
    /\ game.state = Playing
    /\ Len(game.board.blocks) < MaxScenarioBlocks
    /\ \A i \in 1..Len(game.board.blocks) :
          /\ ~ intersect(game.board.blocks[i], b)
          /\ game.board.blocks[i].cells[1].assigned_char # b.cells[1].assigned_char
    /\ game' = [game EXCEPT !.board = push_block(game.board, b)]
    /\ last' = Record(game, Event("push_block", block_x(b)), plain(game', TRUE))

ScenarioTick(delta_time) ==
    \E draw \in RandomDraws(game.settings.width) :
        \E r \in {handle_event(game, Event("Tick", delta_time), draw)} :
            /\ Len(r.game.board.blocks) <= MaxScenarioBlocks
            /\ game' = r.game
            /\ last' = Record(game, Event("Tick", delta_time), r)

NextScenario ==
    \/ \E b \in ScenarioBlocks : PushBlock(b)
    \/ FocusNext
    \/ \E delta_time \in ScenarioDeltas : ScenarioTick(delta_time)

SpecScenario == InitScenario /\ [][NextScenario]_vars

\* a Settled block rests on the bottom row or on a Settled block right below it
Rests(b, board) ==
    \/ block_y(b) = board.height - 1
    \/ \E j \in 1..Len(board.blocks) :
          /\ board.blocks[j].state = Settled
          /\ block_y(board.blocks[j]) = block_y(b) + 1
          /\ block_x(board.blocks[j]) < block_x(b) + width(b)
          /\ block_x(b) < block_x(board.blocks[j]) + width(board.blocks[j])

\* the cells of the bottom row that Settled blocks cover
BottomSettled(board) ==
    {x \in 0..(board.width - 1) :
        \E i \in 1..Len(board.blocks) :
            /\ board.blocks[i].state = Settled
            /\ block_y(board.blocks[i]) = board.height - 1
            /\ block_x(board.blocks[i]) <= x
            /\ x < block_x(board.blocks[i]) + width(board.blocks[i])}

\* C20: on the board of width 4 and height 4 a released block falls until it
\* settles at the bottom row ("an" at x=0, then "ny" at x=2 beside it); at the Tick
\* where the bottom row becomes full its blocks are removed and the score becomes 1,
\* and a block spawned meanwhile is left, still Interactable, while the game goes on.
C20_SettleAtBottomThenClear ==
    /\ [](\A i \in 1..Len(game.board.blocks) :
             game.board.blocks[i].state = Settled => Rests(game.board.blocks[i], game.board))
    /\ [](BottomSettled(game.board) # 0..(game.board.width - 1))
    /\ [][last'.event.kind = "Tick" =>
             /\ game'.score = game.score + (IF last'.cleared # <<>> THEN 1 ELSE 0)
             /\ last'.cleared # <<>> =>
                   /\ game'.state = Playing
                   /\ \A i \in 1..Len(game'.board.blocks) :
                         game'.board.blocks[i].state # Settled]_vars

(***************************************************************************)
(* SpecBox: BoundingBox::intersect and BoundingBox::shift called on boxes  *)
(* of a small board. last.event.arg holds the arguments of the call and    *)
(* last.ret what it gave.                                                  *)
(***************************************************************************)
MaxCoord == 2
MaxSize == 2
MaxOffset == 2

Boxes ==
    {BoundingBox_new(bx, by, w, h) :
        bx \in 0..MaxCoord, by \in 0..MaxCoord, w \in 1..MaxSize, h \in 1..MaxSize}

\* Vector2D<i8>
Offsets == {[x |-> dx, y |-> dy] : dx \in (-MaxOffset)..MaxOffset, dy \in (-MaxOffset)..MaxOffset}

InitBox ==
    /\ game = Game_new([Settings_default EXCEPT !.starts_with_one = FALSE], <<>>)
    /\ last = Record(game, Event("new", 0), plain(game, FALSE))

Intersect(a, b) ==
    /\ game' = game
    /\ last' = Record(game, Event("intersect", <<a, b>>),
                      plain(game, BoundingBox_intersect(a, b)))

Shift(bb, offset) ==
    /\ game' = game
    /\ last' = Record(game, Event("shift", <<bb, offset>>),
                      plain(game, BoundingBox_shift(bb, offset)))

\* shift by offset and then by the opposite offset
ShiftAndBack(bb, offset) ==
    /\ game' = game
    /\ last' = Record(game, Event("shift_back", <<bb, offset>>),
                      plain(game, BoundingBox_shift(BoundingBox_shift(bb, offset),
                                                    [x |-> - offset.x, y |-> - offset.y])))

\* one call on each drawing of the arguments
NextBox ==
    \/ Fresh /\ \E a \in Boxes, b \in Boxes : Intersect(a, b)
    \/ Fresh /\ \E bb \in Boxes, offset \in Offsets : Shift(bb, offset)
    \/ Fresh /\ \E bb \in Boxes, offset \in Offsets : ShiftAndBack(bb, offset)

SpecBox == InitBox /\ [][NextBox]_vars

\* the unit cells a box covers
CellsOf(bb) ==
    {<<px, py>> \in (bb.x..(bb.x + bb.width - 1)) \X (bb.y..(bb.y + bb.height - 1)) : TRUE}

\* C21: intersect(a, b) is true unless the boxes are fully separated along x or
\* along y, boxes whose edges exactly touch counting as separated: that is, exactly
\* when the boxes share a cell. The result is symmetric in a and b, and every box of
\* positive size intersects itself.
C21_IntersectUnlessSeparated ==
    last.event.kind = "intersect" =>
        LET a == last.event.arg[1]
            b == last.event.arg[2]
        IN  /\ last.ret = ~ (\/ a.x + a.width <= b.x
                             \/ b.x + b.width <= a.x
                             \/ a.y + a.height <= b.y
                             \/ b.y + b.height <= a.y)
            /\ last.ret = (CellsOf(a) \cap CellsOf(b) # {})
            /\ last.ret = BoundingBox_intersect(b, a)
            /\ BoundingBox_intersect(a, a)

\* two boxes that touch along an x edge and share their rows do not intersect
C21_Witness ==
    /\ last.event.kind = "intersect"
    /\ last.event.arg[1].x + last.event.arg[1].width = last.event.arg[2].x
    /\ last.event.arg[1].y = last.event.arg[2].y
    /\ last.ret = FALSE

\* C22: shift takes each coordinate c by a signed offset d to max(0, c + d): a
\* positive offset adds its magnitude, a negative one subtracts its magnitude and
\* stops at zero; so a shift by (0, 1) followed by one by (0, -1) gives the
\* coordinates back.
C22_ShiftClampsAtZero ==
    /\ last.event.kind = "shift" =>
          LET bb == last.event.arg[1]
              offset == last.event.arg[2]
          IN  last.ret = [bb EXCEPT !.x = Max({0, bb.x + offset.x}),
                                    !.y = Max({0, bb.y + offset.y})]
    /\ (last.event.kind = "shift_back" /\ last.event.arg[2] = [x |-> 0, y |-> 1]) =>
          last.ret = last.event.arg[1]

\* fall_tick gets to blocks[i]: it is not one the call skips, and no block before it
\* was settled in row 0 by the call (which returns GameOver at once)
Processed(pre, post, i, include_interactable) ==
    /\ pre[i].state # Settled
    /\ include_interactable \/ pre[i].state # Interactable
    /\ \A k \in 1..(i - 1) :
          ~ (pre[k].state # Settled /\ post[k].state = Settled /\ block_y(post[k]) = 0)

\* the cells one row below blocks[i] are inside the board and no other block is on
\* them when the loop gets to i: the blocks before i have been processed already
FreeBelow(pre, post, i, board_height) ==
    /\ block_y(pre[i]) + 1 < board_height
    /\ \A j \in 1..Len(pre) :
          j # i => ~ intersect(MovedDown(pre[i]), IF j < i THEN post[j] ELSE pre[j])

\* C23: every block fall_tick processes (not Settled, and not Interactable unless
\* include_interactable) ends the call one row lower with x and state as before,
\* when the cells below it are inside the board and free of other blocks at the
\* moment it is processed, and otherwise where it was with state Settled; a block is
\* never settled for intersecting itself.
C23_FallsOrSettlesInPlace ==
    [][last'.event.kind = "fall_tick" =>
          LET pre == game.board.blocks
              post == game'.board.blocks
          IN  \A i \in 1..Len(pre) :
                 Processed(pre, post, i, last'.event.arg) =>
                    post[i] = IF FreeBelow(pre, post, i, game.board.height)
                              THEN MovedDown(pre[i])
                              ELSE [pre[i] EXCEPT !.state = Settled]]_vars

\* every cell of every block lies inside the board
InsideBoard(board) ==
    \A i \in 1..Len(board.blocks) :
        \A c \in 1..Len(board.blocks[i].cells) :
            /\ board.blocks[i].cells[c].position.x < board.width
            /\ board.blocks[i].cells[c].position.y < board.height

\* C24: in every reachable Game state every cell of every block lies inside the
\* board; a block that is not Settled and lies on the bottom row is Settled there by
\* its next fall step, and a block alone on the 4x4 board moves down one row on each
\* fall step until then (from row 0: three moves, Settled on the fourth).
C24_InsideBoardFloorSettles ==
    /\ [](game.state # Splash => InsideBoard(game.board))
    /\ [][(last'.event.kind = "Tick" /\ last'.fall_msg # "NotRun" /\ ~ last'.clear_ran) =>
             LET pre == game.board.blocks
                 post == game'.board.blocks
             IN  \A i \in 1..Len(pre) :
                    Processed(pre, post, i, last'.timer_msg.should_drift) =>
                       IF block_y(pre[i]) = game.board.height - 1
                       THEN post[i] = [pre[i] EXCEPT !.state = Settled]
                       ELSE Len(pre) = 1 => post[i] = MovedDown(pre[i])]_vars

\* the step ran a fall step, and whether that included the Interactable blocks
FallStepRan == last'.event.kind = "fall_tick" \/ last'.fall_msg # "NotRun"
FallStepDrifts ==
    IF last'.event.kind = "fall_tick" THEN last'.event.arg ELSE last'.timer_msg.should_drift

\* the change of state from to in the step is one the state machine of a block has;
\* direct says whether a fall step may settle an Interactable block
StateChangeAllowed(from, to, direct) ==
    \/ to = from
    \/ from = Interactable /\ to = Falling /\ last'.event.kind = "Next"
    \/ from = Falling /\ to = Settled /\ FallStepRan
    \/ direct /\ from = Interactable /\ to = Settled /\ FallStepRan /\ FallStepDrifts

\* the changes of state in a step of a Playing game: block by block for an event
\* or a fall step (blocks keep their index), and for clear_completed, which sorts
\* and removes, survivor by survivor, where only Settled to Falling is possible
StateChanges(direct) ==
    /\ (last'.event.kind \in {"Tick", "Type", "Delete", "Next", "Left", "Right", "fall_tick"}
            /\ game.state = Playing /\ ~ last'.clear_ran) =>
          /\ Len(game'.board.blocks) >= Len(game.board.blocks)
          /\ \A i \in 1..Len(game.board.blocks) :
                StateChangeAllowed(game.board.blocks[i].state,
                                   game'.board.blocks[i].state, direct)
    /\ last'.event.kind = "clear_completed" =>
          \A i \in 1..Len(game'.board.blocks) :
              \E j \in 1..Len(game.board.blocks) :
                  /\ game'.board.blocks[i] =
                        [game.board.blocks[j] EXCEPT !.state = game'.board.blocks[i].state]
                  /\ \/ game'.board.blocks[i].state = game.board.blocks[j].state
                     \/ (game.board.blocks[j].state = Settled
                            /\ game'.board.blocks[i].state = Falling)

MaxClearInit == 3
ClearWidth == 2
ClearHeight == 3

ClearBoards ==
    {blocks \in UNION {[1..n -> LineBlocks(ClearWidth, ClearHeight)] : n \in 0..MaxClearInit} :
        WellFormed(blocks)}

InitClear ==
    \E blocks \in ClearBoards :
        /\ game = [Game_new([Settings_default EXCEPT !.starts_with_one = FALSE,
                                                      !.width = ClearWidth,
                                                      !.height = ClearHeight], <<>>)
                      EXCEPT !.board.blocks = blocks]
        /\ last = Record(game, Event("new", 0), plain(game, FALSE))

NextClear == Fresh /\ ClearCompleted

SpecClear == InitClear /\ [][NextClear]_vars

\* q is the block p but for its state: same cells, typed input and place
SameButState(p, q) == p = [q EXCEPT !.state = p.state]

\* C26: when clear_completed removes at least one row and m is the lowest cleared
\* row (largest y), every surviving block that was Settled with y < m is Falling
\* afterwards, every surviving Settled block with y > m stays Settled, Falling and
\* Interactable survivors keep their state, and no survivor's position or typed
\* input changes; when no row is complete it returns an empty list and no block's
\* state, position or typed input changes.
C26_CascadeAboveLowestCleared ==
    [][last'.event.kind = "clear_completed" =>
          LET pre == game.board.blocks
              post == game'.board.blocks
          IN  IF last'.cleared = <<>>
              THEN /\ Len(post) = Len(pre)
                   /\ SeqToSet(post) = SeqToSet(pre)
              ELSE /\ Len(post) + Len(last'.cleared) = Len(pre)
                   /\ \A i \in 1..Len(post) :
                         \E j \in 1..Len(pre) :
                            /\ SameButState(post[i], pre[j])
                            /\ post[i].state =
                                  IF pre[j].state = Settled
                                     /\ block_y(pre[j]) < Max(RowsOf(last'.cleared))
                                  THEN Falling
                                  ELSE pre[j].state]_vars

\* a row was cleared and a Settled block of a row below it is left, still Settled
C26_Witness ==
    /\ last.event.kind = "clear_completed"
    /\ last.cleared # <<>>
    /\ \E i \in 1..Len(game.board.blocks) :
          /\ game.board.blocks[i].state = Settled
          /\ block_y(game.board.blocks[i]) > Max(RowsOf(last.cleared))

\* C27: every block clear_completed returns was Settled when the call started: a
\* Falling or Interactable block is never removed and never counts toward
\* completing a row, even when it lies in the row of Settled blocks and next to
\* them in the sorted list.
C27_RemovesOnlySettled ==
    [][last'.event.kind = "clear_completed" =>
          /\ \A i \in 1..Len(last'.cleared) : last'.cleared[i].state = Settled
          /\ \A j \in 1..Len(game.board.blocks) :
                game.board.blocks[j].state # Settled =>
                    \E i \in 1..Len(game'.board.blocks) :
                        game'.board.blocks[i] = game.board.blocks[j]
          /\ \A y \in RowsOf(last'.cleared) :
                RowTiled(game.board.blocks, y, game.board.width)]_vars

\* the blocks a step turned to Settled, and the blocks it moved one row down
NewlySettled(pre, post) ==
    {i \in 1..Len(pre) : pre[i].state # Settled /\ post[i].state = Settled}
MovedDownIn(pre, post) ==
    {i \in 1..Len(pre) : block_y(post[i]) = block_y(pre[i]) + 1}

\* C28: when no block settles at row 0 (none of row 0 becomes Settled), fall_tick
\* reports BlocksSettled iff at least one block changed to Settled during the call,
\* otherwise Updated iff at least one block moved down, otherwise no change (None);
\* a call in which some blocks moved and another settled reports BlocksSettled.
C28_FallTickReport ==
    [][last'.event.kind = "fall_tick" =>
          LET pre == game.board.blocks
              post == game'.board.blocks
          IN  (\A i \in NewlySettled(pre, post) : block_y(pre[i]) # 0) =>
                 last'.fall_msg =
                    IF NewlySettled(pre, post) # {} THEN "BlocksSettled"
                    ELSE IF MovedDownIn(pre, post) # {} THEN "Updated"
                    ELSE "None"]_vars

\* the number of ticks among deltas[i..] that flag should_fall, for a fall countdown
\* that stands at countdown before tick i; count is the number before tick i
RECURSIVE FallSignals(_, _, _, _, _)
FallSignals(deltas, i, countdown, fall_interval, count) ==
    IF i > Len(deltas) THEN count
    ELSE IF countdown - deltas[i] <= 0
         THEN FallSignals(deltas, i + 1, countdown - deltas[i] + fall_interval,
                          fall_interval, count + 1)
    ELSE FallSignals(deltas, i + 1, countdown - deltas[i], fall_interval, count)

\* C29: with drift_interval n >= 1, Timer.tick flags should_drift on exactly the
\* n-th, 2n-th, 3n-th, ... ticks that flag should_fall and on no other tick (so
\* should_drift implies should_fall), and the drift counter is back at n each time it
\* has reached zero: the cadence counts fall signals, not elapsed time.
C29_DriftEveryNthFall ==
    last.event.kind = "timer_tick" =>
        LET n == game.timer.drift_interval
            falls == FallSignals(last.event.arg, 1, game.timer.fall_interval,
                                 game.timer.fall_interval, 0)
        IN  /\ last.timer_msg.should_drift =
                  (last.timer_msg.should_fall /\ falls % n = 0)
            /\ game.timer.fall_count = n - (falls % n)

\* the fourth fall signal of a Timer with drift_interval 2 is its second drift
C29_Witness ==
    /\ last.event.kind = "timer_tick"
    /\ game.timer.drift_interval = 2
    /\ FallSignals(last.event.arg, 1, game.timer.fall_interval,
                   game.timer.fall_interval, 0) = 4
    /\ last.timer_msg.should_drift
    /\ game.timer.fall_count = 2

\* C30: within one Tick the steps come in the order timer, fall, clear, spawn:
\* clear_completed runs only in a Tick whose fall step reported BlocksSettled, and a
\* block spawned in a Tick is put on the board after the fall step, so the fall step
\* of that Tick, if there is one, does not move it: it is the last block of the
\* board, Interactable, untyped and in row 0 when the Tick returns.
C30_TickOrder ==
    [][(last'.event.kind = "Tick" /\ game.state = Playing) =>
          /\ last'.fall_msg # "NotRun" <=> last'.timer_msg.should_fall
          /\ last'.clear_ran => last'.fall_msg = "BlocksSettled"
          /\ last'.timer_msg.should_spawn =>
                /\ Len(game'.board.blocks) >= 1
                /\ \E draw \in RandomDraws(game.board.width) :
                      game'.board.blocks[Len(game'.board.blocks)]
                          = Block_random(game.board.width, draw)
                /\ ~ last'.clear_ran =>
                      Len(game'.board.blocks) = Len(game.board.blocks) + 1
          /\ ~ last'.timer_msg.should_spawn /\ ~ last'.clear_ran =>
                Len(game'.board.blocks) = Len(game.board.blocks)]_vars

\* a Tick that flagged fall, drift and spawn together left the block it spawned
\* Interactable in row 0
C30_Witness ==
    /\ last.event.kind = "Tick"
    /\ last.from = Playing
    /\ last.timer_msg.should_spawn
    /\ last.timer_msg.should_fall
    /\ last.timer_msg.should_drift
    /\ Len(game.board.blocks) >= 1
    /\ game.board.blocks[Len(game.board.blocks)].state = Interactable
    /\ block_y(game.board.blocks[Len(game.board.blocks)]) = 0

\* block after is block before but for the typed input of its cells
SameButInput(before, after) ==
    /\ Len(after.cells) = Len(before.cells)
    /\ after = [before EXCEPT !.cells =
                   [c \in 1..Len(before.cells) |->
                       [before.cells[c] EXCEPT !.input_char = after.cells[c].input_char]]]

\* C31: in Playing mode Type(ch) and Delete change nothing but the typed input of
\* the focused block (the first Interactable one): every other block, all positions
\* and states, the score, the mode and the timer stay as they were; with no
\* Interactable block they return false and the Game is unchanged.
C31_TypingTouchesOnlyFocusInput ==
    [][(last'.event.kind \in {"Type", "Delete"} /\ game.state = Playing) =>
          IF \E i \in 1..Len(game.board.blocks) : game.board.blocks[i].state = Interactable
          THEN \E i \in 1..Len(game.board.blocks) :
                  /\ FirstInteractable(game.board.blocks, i)
                  /\ SameButInput(game.board.blocks[i], game'.board.blocks[i])
                  /\ game' = [game EXCEPT !.board.blocks[i] = game'.board.blocks[i]]
          ELSE /\ last'.ret = FALSE
               /\ game' = game]_vars

\* of two Interactable blocks Type filled the first cell of the first and left the
\* second untouched
C31_Witness ==
    /\ last.event.kind = "Type"
    /\ last.ret = TRUE
    /\ Len(game.board.blocks) = 2
    /\ game.board.blocks[1].state = Interactable
    /\ FilledCells(game.board.blocks[1]) = {1}
    /\ game.board.blocks[2].state = Interactable
    /\ FilledCells(game.board.blocks[2]) = {}

\* the bounding box of b is (x, y, width, 1) and its cells lie, in order, on
\* (x, y), (x+1, y), ..., (x+width-1, y)
BoxAgreesWithCells(b) ==
    /\ b.bounding_box.height = 1
    /\ b.bounding_box.width = Len(b.cells)
    /\ \A c \in 1..Len(b.cells) :
          b.cells[c].position = BoardPosition_new(b.bounding_box.x + (c - 1), b.bounding_box.y)

SpecIdle == Init /\ [][Next]_vars /\ WF_vars(\E delta_time \in Deltas : Tick(delta_time))

\* C33: a game that is run without playing eventually ends: when from some point
\* on a game that is past the splash screen gets nothing but Tick events (each of
\* positive delta), it reaches GameOver and stays there, whatever the spawns draw.
C33_IdleGameEnds ==
    <>[](last.event.kind = "Tick" /\ game.state # Splash) => <>[](game.state = GameOver)

\* a drift Tick settled the block nobody touched and ended the game
C33_Witness ==
    /\ last.event.kind = "Tick"
    /\ last.from = Playing
    /\ last.timer_msg.should_drift
    /\ last.fall_msg = "GameOver"
    /\ game.state = GameOver

(***************************************************************************)
(* SpecFalling: a Game whose blocks are released with Next and left to     *)
(* fall while the frontend keeps sending Ticks.                            *)
(***************************************************************************)
NextFalling ==
    \/ \E delta_time \in Deltas : Tick(delta_time)
    \/ FocusNext
    \/ NewGame

SpecFalling ==
    Init /\ [][NextFalling]_vars /\ WF_vars(\E delta_time \in Deltas : Tick(delta_time))

\* blocks[i] of a Playing game is Falling
FallingAt(i) ==
    /\ game.state = Playing
    /\ Len(game.board.blocks) >= i
    /\ game.board.blocks[i].state = Falling

\* C34: every Falling block eventually stops falling: in a Playing game that keeps
\* getting Ticks, a block that is Falling becomes Settled or is removed, or the game
\* reaches GameOver; no block stays Falling forever.
C34_FallingEventuallyStops ==
    \A i \in 1..(MaxBlocks + 1) : FallingAt(i) ~> ~ FallingAt(i)

\* a fall step that left the Interactable blocks alone settled a Falling block
C34_Witness ==
    /\ last.event.kind = "Tick"
    /\ last.from = Playing
    /\ last.timer_msg.should_fall
    /\ ~ last.timer_msg.should_drift
    /\ last.fall_msg = "GameOver"
    /\ \E i \in 1..Len(game.board.blocks) : game.board.blocks[i].state = Settled

\* all Settled blocks come before all other blocks in the list
SettledFirst(blocks) ==
    \A i, j \in 1..Len(blocks) :
        (i < j /\ blocks[j].state = Settled) => blocks[i].state = Settled

Supported(board, i) ==
    \/ block_y(board.blocks[i]) = board.height - 1
    \/ \E j \in 1..Len(board.blocks) \ {i} :
          /\ board.blocks[j].state = Settled
          /\ \E p \in Positions(board.blocks[i]) :
                [x |-> p.x, y |-> p.y + 1] \in Positions(board.blocks[j])

\* C36: every Settled block is supported: it lies on the bottom row or one of its
\* cells is directly above a cell of another Settled block; no block is Settled in
\* mid-air.
C36_SettledBlocksSupported ==
    \A i \in 1..Len(game.board.blocks) :
        game.board.blocks[i].state = Settled => Supported(game.board, i)

\* C37: fall_tick never adds, removes or reorders blocks and never changes the x,
\* width, assigned characters or typed input of a block, nor anything of a block that
\* was Settled when the call began; all it does to a block is move it one row down
\* or change its state to Settled.
C37_FallTickFrame ==
    [][last'.event.kind = "fall_tick" =>
          LET pre == game.board.blocks
              post == game'.board.blocks
          IN  /\ Len(post) = Len(pre)
              /\ \A i \in 1..Len(pre) :
                    /\ pre[i].state = Settled => post[i] = pre[i]
                    /\ \/ post[i] = pre[i]
                       \/ post[i] = MovedDown(pre[i])
                       \/ post[i] = [pre[i] EXCEPT !.state = Settled]]_vars

\* the cells of b that hold typed input are its first cells
FilledPrefix(b) ==
    \A i, j \in 1..Len(b.cells) :
        (i < j /\ b.cells[j].input_char # <<>>) => b.cells[i].input_char # <<>>

\* C38: after any sequence of add_char and delete_char on a block that began with no
\* typed input, the cells that hold typed input are a prefix of the block's cells;
\* a successful add_char followed at once by delete_char gives back the block as it
\* was before the add_char.
C38_FilledPrefixRoundTrip ==
    /\ [](FilledPrefix(game.board.blocks[1]))
    /\ [][(last'.event.kind = "add_char" /\ last'.ret = TRUE) =>
             /\ delete_char(game'.board.blocks[1]).ret = TRUE
             /\ delete_char(game'.board.blocks[1]).block = game.board.blocks[1]]_vars

\* a letter went into the first cell of a block of two cells, the second left empty
C38_Witness ==
    /\ last.event.kind = "add_char"
    /\ last.ret = TRUE
    /\ Len(game.board.blocks[1].cells) = 2
    /\ game.board.blocks[1].cells[1].input_char = <<last.event.arg>>
    /\ game.board.blocks[1].cells[2].input_char = <<>>
    /\ delete_char(game.board.blocks[1]).ret = TRUE

(***************************************************************************)
(* SpecDrift: Timer::tick called up to MaxTicks times on Timers of every   *)
(* kind of drift_interval a u8 setting can hold: 0, 1, one in between and  *)
(* 255.                                                                    *)
(***************************************************************************)
\* (fall_interval, spawn_interval, drift_interval)
DriftTimers == {<<10, 20, 0>>, <<10, 10, 1>>, <<10, 20, 2>>, <<10, 10, U8 - 1>>}

InitDrift ==
    \E iv \in DriftTimers :
        /\ game = Game_new([Settings_default EXCEPT !.starts_with_one = FALSE,
                                                    !.fall_interval = iv[1],
                                                    !.spawn_interval = iv[2],
                                                    !.drift_interval = iv[3]], <<>>)
        /\ last = Record(game, Event("new", <<>>), plain(game, FALSE))

SpecDrift == InitDrift /\ [][NextTimer]_vars

\* C39: for every drift_interval of 0..=255 and every sequence of ticks the 8-bit
\* decrement of the drift counter never underflows: the counter is at least 1
\* whenever a tick that flags should_fall decrements it, and after every tick it
\* lies in 1..=drift_interval.
C39_DriftCounterNeverUnderflows ==
    /\ [][(last'.event.kind = "timer_tick" /\ last'.timer_msg.should_fall) =>
             game.timer.fall_count >= 1]_vars
    /\ [](last.event.kind = "timer_tick" =>
             game.timer.fall_count \in 1..game.timer.drift_interval)

(***************************************************************************)
(* SpecIntersect: Block::intersect called on two blocks of a board: line   *)
(* blocks as Block::new_line makes them, and such blocks after a shift of  *)
(* one step to the left or up. last.event.arg holds the two blocks and     *)
(* last.ret what the call gave.                                            *)
(***************************************************************************)
PairBlocks(board_width, board_height) ==
    LET fresh == {new_line_block(d[1], Falling, d[2], y) :
                     d \in RandomDraws(board_width), y \in 0..(board_height - 1)}
    IN  fresh \cup {shift(b, [x |-> -1, y |-> 0]) : b \in fresh}
              \cup {shift(b, [x |-> 0, y |-> -1]) : b \in fresh}

InitIntersect ==
    \E settings \in BoardSettingsSet :
        /\ game = Game_new(settings, <<>>)
        /\ last = Record(game, Event("new", 0), plain(game, FALSE))

BlockIntersect(a, b) ==
    /\ game' = game
    /\ last' = Record(game, Event("block_intersect", <<a, b>>), plain(game, intersect(a, b)))

\* one call on each drawing of the two blocks
NextIntersect ==
    Fresh /\ \E a \in PairBlocks(game.board.width, game.board.height),
                 b \in PairBlocks(game.board.width, game.board.height) : BlockIntersect(a, b)

SpecIntersect == InitIntersect /\ [][NextIntersect]_vars

\* C40: Block.intersect(other) is true exactly when some cell position of the one
\* block is a cell position of the other; the bounding-box test never rejects two
\* single-row blocks that share a cell, and two blocks side by side in a row or in
\* rows one above the other do not intersect.
C40_IntersectIsSharedCell ==
    last.event.kind = "block_intersect" =>
        LET a == last.event.arg[1]
            b == last.event.arg[2]
            shared == Positions(a) \cap Positions(b)
        IN  /\ last.ret = (shared # {})
            /\ shared # {} => BoundingBox_intersect(a.bounding_box, b.bounding_box)
            /\ (block_y(a) = block_y(b) /\ block_x(a) + width(a) = block_x(b)) => last.ret = FALSE
            /\ block_y(a) + 1 = block_y(b) => last.ret = FALSE

\* two blocks of two cells that overlap in one cell were found to intersect
C40_Witness ==
    /\ last.event.kind = "block_intersect"
    /\ last.ret = TRUE
    /\ Len(last.event.arg[1].cells) = 2
    /\ Len(last.event.arg[2].cells) = 2
    /\ block_x(last.event.arg[2]) = block_x(last.event.arg[1]) + 1
    /\ Cardinality(Positions(last.event.arg[1]) \cap Positions(last.event.arg[2])) = 1


====
